---- MODULE Spec2Model ----
(***************************************************************************)
(* Fog of war: the light glow and the decaying fog grid of                 *)
(* 01-fog-of-war/tank_king/objects.py (LightGlow, DarkOverlay) and the     *)
(* frame loop of 01-fog-of-war/baconinvader/main.py (mainloop).            *)
(*                                                                         *)
(* Grid values are Python floats.  A float is modelled exactly as a triple *)
(* <<i, h, l>> standing for  i + (h * 2^28 + l) / 2^56 , and k - 0.1 is    *)
(* the IEEE-754 double subtraction (round to nearest, ties to even).       *)
(***************************************************************************)
EXTENDS Integers, Sequences, FiniteSets, TLC

(***************************************************************************)
(* Bounds of the model.                                                    *)
(***************************************************************************)
\* SCREEN = pygame.Rect(0, 0, *SIZE): the size comes from wclib; the model
\* uses a small screen, in pixels.
SCREEN_w == 64
SCREEN_h == 32
\* number of draw calls counted in the scenario that starts a cell at 255
MaxUpdates == 2400
\* number of draw calls made while the light roams, before it is held
MaxRoam == 3

(***************************************************************************)
(* Program constants.                                                      *)
(***************************************************************************)
radius == 125
layers == 25
glow0 == 11
cell_size == 16 * 2
color == 55
floor25 == 25
ceil255 == 255

\* the double nearest to 0.1 is (Tenth_h * 2^28 + Tenth_l) / 2^56
Limb == 268435456
Tenth_h == 26843545
Tenth_l == 161061274

(***************************************************************************)
(* Floats.                                                                 *)
(***************************************************************************)
F(n) == <<n, 0, 0>>

FLess(a, b) ==
    \/ a[1] < b[1]
    \/ a[1] = b[1] /\ a[2] < b[2]
    \/ a[1] = b[1] /\ a[2] = b[2] /\ a[3] < b[3]

FLeq(a, b) == a = b \/ FLess(a, b)

\* int(k) for k >= 0: truncation
FInt(k) == k[1]

\* unit in the last place of a double with integer part i >= 1, in 2^-56
RECURSIVE Ulp(_)
Ulp(i) == IF i < 2 THEN 16 ELSE 2 * Ulp(i \div 2)

\* k - 0.1 in double arithmetic, for k >= 2
FSubTenth(k) ==
    LET bl == IF k[3] < Tenth_l THEN 1 ELSE 0
        l1 == k[3] - Tenth_l + bl * Limb
        bh == IF k[2] - bl < Tenth_h THEN 1 ELSE 0
        h1 == k[2] - bl - Tenth_h + bh * Limb
        i1 == k[1] - bh
        u  == Ulp(i1)
        r  == l1 % u
        up == r > u \div 2 \/ (r = u \div 2 /\ (l1 \div u) % 2 = 1)
        l2 == IF up THEN l1 - r + u ELSE l1 - r
        cl == IF l2 = Limb THEN 1 ELSE 0
        h2 == h1 + cl
        ch == IF h2 = Limb THEN 1 ELSE 0
    IN  <<i1 + ch, h2 - ch * Limb, l2 - cl * Limb>>

\* utils.clamp on integers and on floats
clamp(v, lo, hi) == IF v < lo THEN lo ELSE IF v > hi THEN hi ELSE v

clampF(k, lo, hi) ==
    IF FLess(k, F(lo)) THEN F(lo) ELSE IF FLess(F(hi), k) THEN F(hi) ELSE k

(***************************************************************************)
(* Geometry of the grid.                                                   *)
(***************************************************************************)
Rows == SCREEN_h \div cell_size
Cols == SCREEN_w \div cell_size
Cells == (0 .. Rows - 1) \X (0 .. Cols - 1)

\* centre of cell <<row, col>>, as <<x, y>>
center(c) == <<c[2] * cell_size + cell_size \div 2,
               c[1] * cell_size + cell_size \div 2>>

\* utils.distance(a, b) < r, on integer points
distance_lt(a, b, r) ==
    (a[1] - b[1]) * (a[1] - b[1]) + (a[2] - b[2]) * (a[2] - b[2]) < r * r

Lit(c, p) == distance_lt(center(c), p, radius)

\* light positions handed to draw: the middle of the screen, a point left of
\* the screen within reach of column 0 only, a point right of the screen at
\* exactly the radius from the centre of column 0, and a point out of reach
PosMid == <<32, 16>>
PosLeft == <<-100, 16>>
PosEdge == <<141, 16>>
PosFar == <<400, 400>>
LightPositions == {PosMid, PosLeft, PosEdge, PosFar}
NoPos == <<>>

(***************************************************************************)
(* LightGlow.                                                              *)
(***************************************************************************)
\* the circles drawn on a fresh surface: ring i has radius rad - i * step
\* and brightness clamp(i * g, 0, 255)
GlowMask(rad, g, step) ==
    [i \in 0 .. layers - 1 |->
        [r |-> rad - i * step, k |-> clamp(i * g, 0, 255)]]

\* variant: the counter wraps at 256 instead of saturating
update_glow_wrap(l) ==
    LET g == (l.glow + 1) % 256
    IN  [glow |-> g, surf |-> GlowMask(radius, g, 3)]

\* LightGlow.update_glow as a function of the object's fields
update_glow_of(l) ==
    LET g == clamp(l.glow + 1, 0, 255)
    IN  [glow |-> g, surf |-> GlowMask(radius, g, 3)]

\* variant: the constructor does not end with update_glow()
LightGlow_init_NoUpdate == [glow |-> glow0, surf |-> GlowMask(radius, glow0, 5)]

\* LightGlow.__init__
LightGlow_init ==
    update_glow_of([glow |-> glow0, surf |-> GlowMask(radius, glow0, 5)])

(***************************************************************************)
(* DarkOverlay.draw, cell by cell.                                         *)
(***************************************************************************)
\* variant: the decayed value is stored without the floor
DecayCell_NoFloor(k) ==
    IF FLess(F(0), k) THEN clampF(FSubTenth(k), 0, ceil255) ELSE k

\* variant: the bounds handed to clamp are swapped
DecayCell_SwappedClamp(k) ==
    IF FLess(F(0), k) THEN clampF(FSubTenth(k), ceil255, floor25) ELSE k

\* variant: the decay takes a whole unit per update
DecayCell_Step1(k) ==
    IF FLess(F(0), k) THEN clampF(<<k[1] - 1, k[2], k[3]>>, floor25, ceil255)
    ELSE k

\* variant: the decay is guarded by k >= 0
DecayCell_GeqZero(k) ==
    IF FLeq(F(0), k) THEN clampF(FSubTenth(k), floor25, ceil255) ELSE k

\* lines 193-196: the decay of the stored value
DecayCell(k) ==
    IF FLess(F(0), k) THEN clampF(FSubTenth(k), floor25, ceil255) ELSE k

\* variant: the reveal test is distance <= radius
StoreCell_Leq(k, c, p, g) ==
    LET dx == center(c)[1] - p[1]
        dy == center(c)[2] - p[2]
    IN  IF dx * dx + dy * dy <= radius * radius THEN F(color) ELSE DecayCell(k)

\* variant: the reveal stores the value it paints
StoreCell_Offset(k, c, p, g) ==
    IF Lit(c, p) THEN F(clamp(color - (glow0 - g) * 2, 0, 255))
    ELSE DecayCell(k)

\* lines 193-203: the value stored in the grid at the end of the update
StoreCell(k, c, p, g) == IF Lit(c, p) THEN F(color) ELSE DecayCell(k)

\* variant: the glow offset is left out of the painted value
PaintCell_NoOffset(k, c, p, g) ==
    clamp(IF Lit(c, p) THEN color ELSE FInt(DecayCell(k)), 0, 255)

\* lines 197-204: the grey level painted for the cell
PaintCell(k, c, p, g) ==
    clamp(IF Lit(c, p) THEN color - (glow0 - g) * 2 ELSE FInt(DecayCell(k)),
          0, 255)

(***************************************************************************)
(* State.                                                                  *)
(*   grid, glow, surf   DarkOverlay.grid, LightGlow.glow, LightGlow.surf   *)
(*   painted, blended   what the last draw left on DarkOverlay.surf: the   *)
(*                      grey level of each cell and the mask blended on it *)
(*   pos, op            the position handed to the last draw, the last     *)
(*                      operation                                          *)
(*   sched, updates     the caller: its schedule and its count of draws    *)
(*   wasPositive        history: the cell has held a value above 0         *)
(*   everLit            history: the cell has been inside the radius       *)
(*   pc, playerPos, lightPos, lightAtFilter   the frame loop of main.py    *)
(***************************************************************************)
VARIABLES grid, painted, pos, glow, surf, blended, op, sched, updates,
          wasPositive, everLit,
          pc, playerPos, lightPos, lightAtFilter

fogVars == <<grid, painted, pos, glow, surf, blended, op, sched, updates,
             wasPositive, everLit>>
frameVars == <<pc, playerPos, lightPos, lightAtFilter>>
vars == <<grid, painted, pos, glow, surf, blended, op, sched, updates,
          wasPositive, everLit, pc, playerPos, lightPos, lightAtFilter>>

NoMask == <<>>

\* main.py, lines 43-44: the light and the player as constructed
light_radius == 150
player_unit == 16 * 3
PlayerStart == <<100, 100>>
LightStart == <<100, 100>>

\* DarkOverlay.__init__ (with LightGlow.__init__)
InitFog ==
    /\ grid = [c \in Cells |-> F(0)]
    /\ painted = [c \in Cells |-> 0]
    /\ pos = NoPos
    /\ glow = LightGlow_init.glow
    /\ surf = LightGlow_init.surf
    /\ blended = NoMask
    /\ op = "init"
    /\ updates = 0
    /\ wasPositive = [c \in Cells |-> FALSE]
    /\ everLit = [c \in Cells |-> FALSE]

\* mainloop, lines 41-52
InitFrame ==
    /\ pc = "events"
    /\ playerPos = PlayerStart
    /\ lightPos = LightStart
    /\ lightAtFilter = NoPos

Init == InitFog /\ InitFrame /\ sched = "free"

\* DarkOverlay.draw(surf, pos)
draw(p) ==
    /\ grid' = [c \in Cells |-> StoreCell(grid[c], c, p, glow)]
    /\ painted' = [c \in Cells |-> PaintCell(grid[c], c, p, glow)]
    /\ blended' = surf
    /\ pos' = p
    /\ op' = "draw"
    /\ wasPositive' = [c \in Cells |-> wasPositive[c] \/ FLess(F(0), grid'[c])]
    /\ everLit' = [c \in Cells |-> everLit[c] \/ Lit(c, p)]
    /\ UNCHANGED <<glow, surf>>

\* LightGlow.update_glow()
update_glow ==
    LET l == update_glow_of([glow |-> glow, surf |-> surf])
    IN  /\ glow' = l.glow
        /\ surf' = l.surf
        /\ op' = "update_glow"
        /\ UNCHANGED <<grid, painted, pos, blended, wasPositive, everLit>>

(***************************************************************************)
(* Spec: the overlay as the sources run it.  draw is called with any light *)
(* position; update_glow is called by the constructor only.                *)
(***************************************************************************)
Draw ==
    /\ \E p \in LightPositions : draw(p)
    /\ UNCHANGED <<sched, updates>>
    /\ UNCHANGED frameVars

Next == Draw

Spec == Init /\ [][Next]_vars

(***************************************************************************)
(* SpecGlow: a caller that advances the glow between draws (LightGlow's    *)
(* update_glow is public; draw holds the call in a comment, line 189).     *)
(* Each frame draws once, after at most one update_glow.                   *)
(***************************************************************************)
LightPath == {PosMid, PosFar}

InitGlow == InitFog /\ InitFrame /\ sched = "advance"

FrameAdvance ==
    /\ sched = "advance"
    /\ update_glow
    /\ sched' = "draw"
    /\ UNCHANGED updates
    /\ UNCHANGED frameVars

FrameDraw ==
    /\ sched \in {"advance", "draw"}
    /\ \E p \in LightPath : draw(p)
    /\ sched' = "advance"
    /\ UNCHANGED updates
    /\ UNCHANGED frameVars

NextGlow == FrameAdvance \/ FrameDraw

SpecGlow == InitGlow /\ [][NextGlow]_vars

(***************************************************************************)
(* SpecDecay: the light roams for a few draws, then is held stationary and *)
(* out of reach while the frames go on.                                    *)
(***************************************************************************)
InitDecay == InitFog /\ InitFrame /\ sched = "roam"

Roam ==
    /\ sched = "roam"
    /\ updates < MaxRoam
    /\ \E p \in LightPositions : draw(p)
    /\ updates' = updates + 1
    /\ UNCHANGED sched
    /\ UNCHANGED frameVars

Hold ==
    /\ sched = "roam"
    /\ sched' = "hold"
    /\ UNCHANGED <<grid, painted, pos, glow, surf, blended, op, updates,
                   wasPositive, everLit>>
    /\ UNCHANGED frameVars

DrawFar ==
    /\ sched = "hold"
    /\ draw(PosFar)
    /\ UNCHANGED <<sched, updates>>
    /\ UNCHANGED frameVars

NextDecay == Roam \/ Hold \/ DrawFar

\* the frame loop keeps calling draw
SpecDecay == InitDecay /\ [][NextDecay]_vars /\ WF_vars(DrawFar)

(***************************************************************************)
(* SpecScenario: the grid is set by hand (column 0 to 255, the other       *)
(* columns to the revealed level 55), the light is held out of reach and   *)
(* the draws are counted.                                                  *)
(***************************************************************************)
ScenarioGrid == [c \in Cells |-> IF c[2] = 0 THEN F(ceil255) ELSE F(color)]

InitScenario ==
    /\ InitFrame
    /\ grid = ScenarioGrid
    /\ painted = [c \in Cells |-> 0]
    /\ pos = NoPos
    /\ glow = LightGlow_init.glow
    /\ surf = LightGlow_init.surf
    /\ blended = NoMask
    /\ op = "init"
    /\ updates = 0
    /\ wasPositive = [c \in Cells |-> TRUE]
    /\ everLit = [c \in Cells |-> FALSE]
    /\ sched = "hold"

CountedDrawFar ==
    /\ updates < MaxUpdates
    /\ draw(PosFar)
    /\ updates' = updates + 1
    /\ UNCHANGED sched
    /\ UNCHANGED frameVars

NextScenario == CountedDrawFar

SpecScenario == InitScenario /\ [][NextScenario]_vars

(***************************************************************************)
(* SpecFrame: mainloop of baconinvader/main.py, one action per step of a   *)
(* frame.                                                                  *)
(***************************************************************************)
\* positions the player's logic can leave the player at
PlayerPositions == {<<100, 100>>, <<101, 100>>, <<100, 103>>, <<0, 0>>,
                    <<130, 140>>}

\* player.rect.center
rect_center(p) == <<p[1] + player_unit \div 2, p[2] + player_unit \div 2>>

\* lines 69-70: where the light is put for a player at p
Anchor(p) == <<rect_center(p)[1] - light_radius,
               rect_center(p)[2] - light_radius>>

\* lines 54-57
Events ==
    /\ pc = "events"
    /\ pc' \in {"logic", "done"}
    /\ UNCHANGED <<playerPos, lightPos, lightAtFilter>>
    /\ UNCHANGED fogVars

\* lines 59-60
Logic ==
    /\ pc = "logic"
    /\ playerPos' \in PlayerPositions
    /\ pc' = "filter"
    /\ UNCHANGED <<lightPos, lightAtFilter>>
    /\ UNCHANGED fogVars

\* lines 62-66: the filter reads the light where it is now
Filter ==
    /\ pc = "filter"
    /\ lightAtFilter' = lightPos
    /\ pc' = "move"
    /\ UNCHANGED <<playerPos, lightPos>>
    /\ UNCHANGED fogVars

\* lines 68-70
MoveLight ==
    /\ pc = "move"
    /\ lightPos' = Anchor(playerPos)
    /\ pc' = "render"
    /\ UNCHANGED <<playerPos, lightAtFilter>>
    /\ UNCHANGED fogVars

\* lines 72-77
Render ==
    /\ pc = "render"
    /\ pc' = "events"
    /\ UNCHANGED <<playerPos, lightPos, lightAtFilter>>
    /\ UNCHANGED fogVars

NextFrame == Events \/ Logic \/ Filter \/ MoveLight \/ Render

SpecFrame == Init /\ [][NextFrame]_vars

(***************************************************************************)
(* The claims.                                                             *)
(***************************************************************************)
\* the claims' own reading of "inside the light radius" and of "the
\* computed revealed value"
InsideRadius(c, p) ==
    LET dx == (c[2] * 32 + 16) - p[1]
        dy == (c[1] * 32 + 16) - p[2]
    IN  dx * dx + dy * dy < 125 * 125

RevealedValue(g) ==
    LET v == 55 - (11 - g) * 2
    IN  IF v < 0 THEN 0 ELSE IF v > 255 THEN 255 ELSE v

OffScreen(p) == p[1] < 0 \/ p[1] >= SCREEN_w \/ p[2] < 0 \/ p[2] >= SCREEN_h

\* C1: after any sequence of draws every cell's brightness is in [0,255],
\* and a cell whose brightness has once been above 0 is never below 25.
C1_BrightnessClamped ==
    \A c \in Cells :
        /\ FLeq(F(0), grid[c])
        /\ FLeq(grid[c], F(255))
        /\ wasPositive[c] => FLeq(F(25), grid[c])

\* C1 witness: a cell that was lit has decayed all the way to the floor
\* while another one is lit again.
C1_Witness ==
    \E c, d \in Cells :
        /\ wasPositive[c] /\ grid[c] = F(25)
        /\ grid[d] = F(55) /\ op = "draw"

\* C2, as claimed: after a draw the brightness of every cell inside the
\* radius equals 55 - (11 - glow)*2 clamped to [0,255].
C2_StoredIsRevealedValue ==
    \A c \in Cells :
        (op = "draw" /\ InsideRadius(c, pos)) =>
            grid[c] = F(RevealedValue(glow))

\* C2, amended: after a draw, for every cell inside the radius, the grey
\* level painted in that draw equals 55 - (11 - glow)*2 clamped to [0,255]
\* and the value stored in the grid is exactly 55, whatever the cell held.
C2_RevealDominance ==
    \A c \in Cells :
        (op = "draw" /\ InsideRadius(c, pos)) =>
            /\ painted[c] = RevealedValue(glow)
            /\ grid[c] = F(55)

\* C2 witness: a cell is revealed while the glow is saturated, so that the
\* painted value is the clamped one.
C2_Witness ==
    \E c \in Cells :
        /\ op = "draw" /\ InsideRadius(c, pos)
        /\ glow = 255 /\ painted[c] = 255

\* C3: a cell outside the radius with brightness above 25 never rises in a
\* draw and stays at or above 25; once the light is held out of reach it
\* reaches exactly 25; and at 25 it stays at 25 in every later draw that
\* leaves it outside the radius.
C3_DecayMonotone ==
    /\ [][\A c \in Cells :
            (op' = "draw" /\ ~InsideRadius(c, pos') /\ FLess(F(25), grid[c]))
                => (FLeq(grid'[c], grid[c]) /\ FLeq(F(25), grid'[c]))]_vars
    /\ \A c \in Cells :
            (sched = "hold" /\ FLess(F(25), grid[c])) ~> (grid[c] = F(25))
    /\ [][\A c \in Cells :
            (op' = "draw" /\ ~InsideRadius(c, pos') /\ grid[c] = F(25))
                => grid'[c] = F(25)]_vars

\* C3 witness: with the light held out of reach, a cell that was lit is at
\* the floor after a draw.
C3_Witness ==
    \E c \in Cells :
        /\ sched = "hold" /\ op = "draw" /\ pos = PosFar
        /\ everLit[c] /\ grid[c] = F(25)

C5_GlowAdvance ==
    /\ [](glow \in 0 .. 255)
    /\ [][op' = "update_glow" =>
            glow' = (IF glow < 255 THEN glow + 1 ELSE 255)]_vars
    /\ [][glow' >= glow]_vars
    /\ [][glow = 255 => glow' = 255]_vars

\* C5 witness: update_glow has just run on a glow that the draw before it
\* already saw at 255.
C5_Witness ==
    /\ op = "update_glow"
    /\ glow = 255
    /\ blended = surf

\* C6: when the visibility filter has run in a frame, the light position
\* it read is the anchor of the player's position in that frame.
C6_FilterUsesFramePosition ==
    pc = "move" => lightAtFilter = Anchor(playerPos)

\* C7, as claimed: a draw with the light outside the screen leaves every
\* cell at what decay alone gives.
C7_OffScreenNeverLit ==
    [][(op' = "draw" /\ OffScreen(pos')) =>
            \A c \in Cells : grid'[c] = DecayCell(grid[c])]_vars

\* C7, amended: a draw with the light outside the screen leaves every cell
\* whose centre is at distance >= radius from the light at what decay alone
\* gives, and paints it at that level; a cell whose centre is closer than
\* the radius is revealed (55) although the light is outside the screen.
C7_OffScreenOutOfReach ==
    [][(op' = "draw" /\ OffScreen(pos')) =>
            \A c \in Cells :
                IF InsideRadius(c, pos')
                THEN grid'[c] = F(55)
                ELSE /\ grid'[c] = DecayCell(grid[c])
                     /\ painted'[c] = FInt(grid'[c])]_vars

\* C7 witness: a draw with the light outside the screen, at exactly the
\* radius from a cell that has decayed, and within reach of another cell.
C7_Witness ==
    /\ op = "draw"
    /\ pos = PosEdge
    /\ OffScreen(pos)
    /\ \E c, d \in Cells :
        /\ ~InsideRadius(c, pos) /\ FLess(F(25), grid[c]) /\ FLess(grid[c], F(55))
        /\ InsideRadius(d, pos) /\ grid[d] = F(55)

\* C8, as claimed: the mask blended by a draw is the ring-step-5 mask.
C8_AmbientMaskBlended ==
    op = "draw" => blended = GlowMask(125, glow, 5)

\* C8, amended: the mask blended by a draw is the one update_glow built,
\* with ring step 3 (ring i of 25 has radius radius - 3*i and brightness
\* clamp(i*glow, 0, 255)); the ring-step-5 mask of the constructor is
\* replaced before construction ends and is never blended.
C8_RingStep3Blended ==
    /\ \A i \in 0 .. 24 :
        /\ surf[i].r = 125 - 3 * i
        /\ surf[i].k = (IF i * glow > 255 THEN 255 ELSE i * glow)
    /\ op = "draw" => blended = surf
    /\ blended # NoMask => \A i \in 0 .. 24 : blended[i].r = 125 - 3 * i

\* C8 witness: a draw has blended the mask after advances of the glow.
C8_Witness ==
    /\ op = "draw"
    /\ glow > 20
    /\ blended = surf
    /\ blended[24].r = 53

\* C9: a cell at 0 whose centre is not inside the radius is left at 0 by a
\* draw, and a cell that has never been inside the radius is at exactly 0.
C9_DarkStaysDark ==
    /\ [](\A c \in Cells : ~everLit[c] => grid[c] = F(0))
    /\ [][\A c \in Cells :
            (op' = "draw" /\ grid[c] = F(0) /\ ~InsideRadius(c, pos'))
                => (grid'[c] = F(0) /\ painted'[c] = 0)]_vars

\* C9 witness: one cell has been lit and has decayed to the floor while
\* another has never been inside the radius and is still at 0.
C9_Witness ==
    \E c, d \in Cells :
        /\ op = "draw"
        /\ ~everLit[c] /\ grid[c] = F(0)
        /\ everLit[d] /\ grid[d] = F(25)

\* C10: every stored value is 0 or in [25,55], and a reveal stores exactly
\* 55 whatever the glow counter is.
C10_StoredRange ==
    \A c \in Cells :
        /\ \/ grid[c] = F(0)
           \/ FLeq(F(25), grid[c]) /\ FLeq(grid[c], F(55))
        /\ (op = "draw" /\ InsideRadius(c, pos)) => grid[c] = F(55)

\* C10 witness: a reveal at a glow far from its initial value stores 55
\* while the painted value differs.
C10_Witness ==
    \E c \in Cells :
        /\ op = "draw" /\ InsideRadius(c, pos)
        /\ glow = 100 /\ grid[c] = F(55) /\ painted[c] = 233

====
